---- MODULE Spec2Model ----
(***************************************************************************)
(* Model of incstats.h (borchehq/rstats): incremental weighted moments.    *)
(*                                                                         *)
(* A C double is modelled by an exact value <<n, d, r>> standing for       *)
(* (n / d) * sqrt(r): d > 0, gcd(|n|, d) = 1 and r a square-free positive  *)
(* integer (r = 1 for a rational).  d = 0 encodes the IEEE-754 specials:   *)
(* <<0,0,1>> is NaN, <<1,0,1>> is +Inf and <<-1,0,1>> is -Inf.  Rounding   *)
(* is abstracted away (exact arithmetic); division by zero, Inf and NaN    *)
(* follow IEEE-754.  Every accumulator starts at +0.0 and every weight is  *)
(* non-negative, so no divisor of the code is ever -0.0 and the sign of a  *)
(* zero needs no representation.                                           *)
(***************************************************************************)
EXTENDS Integers, Sequences, FiniteSets, TLC

\* ------------------------------------------------------------------------
\* Bounds of the model
\* ------------------------------------------------------------------------
MaxLen == 3
MaxP == 4
MaxN == 20
MaxY == 6

\* ------------------------------------------------------------------------
\* double arithmetic
\* ------------------------------------------------------------------------
Zero == <<0, 1, 1>>
One == <<1, 1, 1>>
NaN == <<0, 0, 1>>
PInf == <<1, 0, 1>>
NInf == <<-1, 0, 1>>

R(n) == <<n, 1, 1>>

Abs(n) == IF n < 0 THEN -n ELSE n
Sgn(n) == IF n < 0 THEN -1 ELSE IF n = 0 THEN 0 ELSE 1

RECURSIVE GCD(_, _)
GCD(a, b) == IF b = 0 THEN a ELSE GCD(b, a % b)

IsNaN(a) == a[2] = 0 /\ a[1] = 0
IsInf(a) == a[2] = 0 /\ a[1] # 0
IsFinite(a) == a[2] # 0

\* The value outside the representation (a sum of distinct surds, a root of
\* a surd): the code never forms one, and evaluating it stops TLC.
Unrepresentable == CHOOSE v \in {} : TRUE

\* (n / d) * sqrt(r) in lowest terms, d # 0
Norm(n, d, r) ==
    IF n = 0 THEN Zero
    ELSE LET g == GCD(Abs(n), Abs(d))
             s == IF d < 0 THEN -1 ELSE 1
         IN  <<(s * n) \div g, (s * d) \div g, r>>

Neg(a) == <<-a[1], a[2], a[3]>>

Add(a, b) ==
    IF IsNaN(a) \/ IsNaN(b) THEN NaN
    ELSE IF IsInf(a) /\ IsInf(b) THEN (IF a = b THEN a ELSE NaN)
    ELSE IF IsInf(a) THEN a
    ELSE IF IsInf(b) THEN b
    ELSE IF a[1] = 0 THEN b
    ELSE IF b[1] = 0 THEN a
    ELSE IF a[3] = b[3]
         THEN LET g == GCD(a[2], b[2])
              IN  Norm(a[1] * (b[2] \div g) + b[1] * (a[2] \div g),
                       (a[2] \div g) * b[2], a[3])
         ELSE Unrepresentable

Sub(a, b) == Add(a, Neg(b))

Mul(a, b) ==
    IF IsNaN(a) \/ IsNaN(b) THEN NaN
    ELSE IF IsInf(a) \/ IsInf(b)
         THEN (IF a[1] = 0 \/ b[1] = 0 THEN NaN
               ELSE <<Sgn(a[1]) * Sgn(b[1]), 0, 1>>)
    ELSE IF a[1] = 0 \/ b[1] = 0 THEN Zero
    ELSE LET g == GCD(a[3], b[3])
             g1 == GCD(Abs(a[1]), b[2])
             g2 == GCD(Abs(b[1]), a[2])
         IN  Norm((a[1] \div g1) * (b[1] \div g2) * g,
                  (a[2] \div g2) * (b[2] \div g1),
                  (a[3] \div g) * (b[3] \div g))

Div(a, b) ==
    IF IsNaN(a) \/ IsNaN(b) THEN NaN
    ELSE IF IsInf(a)
         THEN (IF IsInf(b) THEN NaN
               ELSE <<a[1] * (IF b[1] < 0 THEN -1 ELSE 1), 0, 1>>)
    ELSE IF IsInf(b) THEN Zero
    ELSE IF b[1] = 0
         THEN (IF a[1] = 0 THEN NaN ELSE <<Sgn(a[1]), 0, 1>>)
    ELSE IF a[1] = 0 THEN Zero
    ELSE \* (a1/a2) sqrt(r1) / ((b1/b2) sqrt(r2))
         \*   = (a1 b2 / (a2 b1 r2)) * sqrt(r1 r2)
         LET g == GCD(a[3], b[3])
             g1 == GCD(Abs(a[1]), Abs(b[1]))
             g2 == GCD(a[2], b[2])
         IN  Norm((a[1] \div g1) * (b[2] \div g2) * g,
                  (a[2] \div g2) * (b[1] \div g1) * b[3],
                  (a[3] \div g) * (b[3] \div g))

\* the greatest s <= t with s * s dividing m
RECURSIVE SquarePart(_, _)
SquarePart(m, t) ==
    IF t <= 1 THEN 1
    ELSE IF m % (t * t) = 0 THEN t
    ELSE SquarePart(m, t - 1)

RECURSIVE ISqrt(_, _)
ISqrt(m, t) == IF (t + 1) * (t + 1) > m THEN t ELSE ISqrt(m, t + 1)

\* sqrt() of <math.h>
sqrt(a) ==
    IF IsNaN(a) THEN NaN
    ELSE IF IsInf(a) THEN (IF a[1] > 0 THEN PInf ELSE NaN)
    ELSE IF a[1] < 0 THEN NaN
    ELSE IF a[1] = 0 THEN Zero
    ELSE IF a[3] # 1 THEN Unrepresentable
    ELSE LET m == a[1] * a[2]
             s == SquarePart(m, ISqrt(m, 1))
         IN  Norm(s, a[2], m \div (s * s))

\* the C comparison a < b (false when either side is NaN)
Less(a, b) ==
    IF IsNaN(a) \/ IsNaN(b) THEN FALSE
    ELSE IF IsInf(a) \/ IsInf(b)
         THEN (IF IsInf(a) /\ IsInf(b) THEN a[1] < b[1]
               ELSE IF IsInf(a) THEN a[1] < 0
               ELSE b[1] > 0)
    ELSE IF a[3] = 1 /\ b[3] = 1 THEN a[1] * b[2] < b[1] * a[2]
    ELSE Unrepresentable


\* ------------------------------------------------------------------------
\* Arithmetic primitives (incstats.h:26-83)
\* ------------------------------------------------------------------------
\* mutant: incstats_pow looping while i < y
PowContinues_through_y(i, y) == i < y

\* the loop condition i < y - 1 in uint64_t: at y = 0 the bound wraps to
\* 2^64 - 1, above every counter
PowContinues(i, y) == IF y = 0 THEN TRUE ELSE i < y - 1

RECURSIVE PowLoop(_, _, _, _)
PowLoop(result, x, i, y) ==
    IF PowContinues(i, y) THEN PowLoop(Mul(result, x), x, i + 1, y)
    ELSE result

incstats_pow(x, y) == IF y = 0 THEN One ELSE PowLoop(x, x, 0, y)

\* mutant: n_choose_k dividing the running result first in every pass
NChooseKStep_divide_first(result, n, j) == (result \div j) * n

\* one pass of the loop body of n_choose_k
NChooseKStep(result, n, j) ==
    IF n % j = 0 THEN result * (n \div j)
    ELSE IF result % j = 0 THEN (result \div j) * n
    ELSE (result * n) \div j

RECURSIVE NChooseKLoop(_, _, _, _)
NChooseKLoop(result, n, j, k) ==
    IF j <= k THEN NChooseKLoop(NChooseKStep(result, n, j), n - 1, j + 1, k)
    ELSE result

\* 0 <= k <= n; every intermediate value of the orders modelled is far
\* below 2^64, so the uint64_t arithmetic does not wrap
n_choose_k(n, k) ==
    NChooseKLoop(1, n, 1, IF k > n - k THEN n - k ELSE k)

\* the dividend of the one division a pass of that loop body performs
NChooseKDividend(result, n, j) ==
    IF n % j = 0 THEN n
    ELSE IF result % j = 0 THEN result
    ELSE result * n

\* the product a pass of that loop body forms
NChooseKProduct(result, n, j) ==
    IF n % j = 0 THEN result * (n \div j)
    ELSE IF result % j = 0 THEN (result \div j) * n
    ELSE result * n

RECURSIVE FactorialLoop(_, _, _)
FactorialLoop(result, i, n) ==
    IF i <= n THEN FactorialLoop(result * i, i + 1, n) ELSE result

\* n <= 12 here: 13! is beyond the integers this module computes with
factorial(n) == FactorialLoop(1, 2, n)

\* ------------------------------------------------------------------------
\* Update functions.  A buffer is a function from 0-based index to double.
\* ------------------------------------------------------------------------
\* mutant: the increment of the mean is not divided by the cumulative weight
incstats_mean_undivided(x, w, buffer) ==
    [buffer EXCEPT ![0] = Add(buffer[0], w),
                   ![1] = Add(buffer[1], Mul(w, Sub(x, buffer[1])))]

incstats_mean(x, w, buffer) ==
    LET b0 == Add(buffer[0], w)
    IN  [buffer EXCEPT ![0] = b0,
                       ![1] = Add(buffer[1],
                                  Mul(Div(w, b0), Sub(x, buffer[1])))]

\* mutant: both factors of the increment use the new mean
incstats_variance_new_mean_twice(x, w, buffer) ==
    LET b0 == Add(buffer[0], w)
        new_mean == Add(buffer[1], Mul(Div(w, b0), Sub(x, buffer[1])))
    IN  [buffer EXCEPT ![0] = b0,
                       ![2] = Add(buffer[2],
                                  Mul(Mul(w, Sub(x, new_mean)),
                                      Sub(x, new_mean))),
                       ![1] = new_mean]

incstats_variance(x, w, buffer) ==
    LET b0 == Add(buffer[0], w)
        new_mean == Add(buffer[1], Mul(Div(w, b0), Sub(x, buffer[1])))
    IN  [buffer EXCEPT ![0] = b0,
                       ![2] = Add(buffer[2],
                                  Mul(Mul(w, Sub(x, buffer[1])),
                                      Sub(x, new_mean))),
                       ![1] = new_mean]

\* -w * (x - buffer[1]) / new_sum_w
DeltaOld(x, w, buffer, new_sum_w) ==
    Div(Mul(Neg(w), Sub(x, buffer[1])), new_sum_w)

\* buffer[0] * (x - buffer[1]) / new_sum_w
DeltaNew(x, w, buffer, new_sum_w) ==
    Div(Mul(buffer[0], Sub(x, buffer[1])), new_sum_w)

\* buffer[0] * pow(-w (x - buffer[1]) / new_sum_w, i)
\*   + w * pow(buffer[0] (x - buffer[1]) / new_sum_w, i), added to acc
PureTerms(acc, x, w, buffer, new_sum_w, i) ==
    Add(Add(acc,
            Mul(buffer[0],
                incstats_pow(DeltaOld(x, w, buffer, new_sum_w), i))),
        Mul(w, incstats_pow(DeltaNew(x, w, buffer, new_sum_w), i)))

\* the assignment to buffer[3] of incstats_skewness and incstats_kurtosis
Order3(x, w, buffer, new_sum_w) ==
    PureTerms(Add(buffer[3],
                  Mul(Mul(R(3), buffer[2]),
                      DeltaOld(x, w, buffer, new_sum_w))),
              x, w, buffer, new_sum_w, 3)

\* the assignment to buffer[2] of incstats_skewness and incstats_kurtosis
Order2(x, w, buffer, new_sum_w) ==
    PureTerms(buffer[2], x, w, buffer, new_sum_w, 2)

\* the assignment to buffer[4] of incstats_kurtosis
Order4(x, w, buffer, new_sum_w) ==
    PureTerms(Add(Add(buffer[4],
                      Mul(Mul(R(4), buffer[3]),
                          DeltaOld(x, w, buffer, new_sum_w))),
                  Mul(Mul(R(6), buffer[2]),
                      incstats_pow(DeltaOld(x, w, buffer, new_sum_w), 2))),
              x, w, buffer, new_sum_w, 4)

\* mutant: the mean is left alone while the cumulative weight is 0
NewMean_unless_weightless(x, w, buffer, new_sum_w) ==
    IF new_sum_w = Zero THEN buffer[1]
    ELSE Add(buffer[1], Mul(Div(w, new_sum_w), Sub(x, buffer[1])))

\* mutant: the mean moves by 1 / new_sum_w of the deviation, whatever the
\* weight of the sample
NewMeanUnweighted(x, w, buffer, new_sum_w) ==
    Add(buffer[1], Mul(Div(One, new_sum_w), Sub(x, buffer[1])))

\* buffer[1] = buffer[1] + w / new_sum_w * (x - buffer[1])
NewMean(x, w, buffer, new_sum_w) ==
    Add(buffer[1], Mul(Div(w, new_sum_w), Sub(x, buffer[1])))

\* the statements run in program order, each on the buffer as it then is
incstats_skewness(x, w, buffer) ==
    LET new_sum_w == Add(buffer[0], w)
        s3 == [buffer EXCEPT ![3] = Order3(x, w, buffer, new_sum_w)]
        s2 == [s3 EXCEPT ![2] = Order2(x, w, s3, new_sum_w)]
        s1 == [s2 EXCEPT ![1] = NewMean(x, w, s2, new_sum_w)]
    IN  [s1 EXCEPT ![0] = new_sum_w]

\* mutant: the orders are updated ascending, so that each order reads the
\* lower orders already updated in the same call
incstats_kurtosis_ascending(x, w, buffer) ==
    LET new_sum_w == Add(buffer[0], w)
        s2 == [buffer EXCEPT ![2] = Order2(x, w, buffer, new_sum_w)]
        s3 == [s2 EXCEPT ![3] = Order3(x, w, s2, new_sum_w)]
        s4 == [s3 EXCEPT ![4] = Order4(x, w, s3, new_sum_w)]
        s1 == [s4 EXCEPT ![1] = NewMean(x, w, s4, new_sum_w)]
    IN  [s1 EXCEPT ![0] = new_sum_w]

incstats_kurtosis(x, w, buffer) ==
    LET new_sum_w == Add(buffer[0], w)
        s4 == [buffer EXCEPT ![4] = Order4(x, w, buffer, new_sum_w)]
        s3 == [s4 EXCEPT ![3] = Order3(x, w, s4, new_sum_w)]
        s2 == [s3 EXCEPT ![2] = Order2(x, w, s3, new_sum_w)]
        s1 == [s2 EXCEPT ![1] = NewMean(x, w, s2, new_sum_w)]
    IN  [s1 EXCEPT ![0] = new_sum_w]

\* mutant: the cross terms are weighted by the binomial coefficients of
\* order i - 1
RECURSIVE CrossTermsLowerBinomial(_, _, _, _, _, _, _)
CrossTermsLowerBinomial(tmp, x, w, buffer, new_sum_w, i, k) ==
    IF k > 0
    THEN CrossTermsLowerBinomial(
             Add(tmp,
                 Mul(Mul(R(n_choose_k(i - 1, k)), buffer[i - k]),
                     incstats_pow(DeltaOld(x, w, buffer, new_sum_w), k))),
             x, w, buffer, new_sum_w, i, k - 1)
    ELSE tmp

\* the inner loop of incstats_central_moment: k = i-2 down to 1
RECURSIVE CrossTerms(_, _, _, _, _, _, _)
CrossTerms(tmp, x, w, buffer, new_sum_w, i, k) ==
    IF k > 0
    THEN CrossTerms(
             Add(tmp,
                 Mul(Mul(R(n_choose_k(i, k)), buffer[i - k]),
                     incstats_pow(DeltaOld(x, w, buffer, new_sum_w), k))),
             x, w, buffer, new_sum_w, i, k - 1)
    ELSE tmp

\* mutant: incstats_central_moment running its outer loop from order 2 up
\* to p
RECURSIVE MomentLoopUp(_, _, _, _, _, _)
MomentLoopUp(x, w, buffer, new_sum_w, i, p) ==
    IF i <= p
    THEN MomentLoopUp(x, w,
             [buffer EXCEPT ![i] =
                 PureTerms(Add(buffer[i],
                               CrossTerms(Zero, x, w, buffer, new_sum_w,
                                          i, i - 2)),
                           x, w, buffer, new_sum_w, i)],
             new_sum_w, i + 1, p)
    ELSE buffer

MomentLoop_ascending(x, w, buffer, new_sum_w, i) ==
    MomentLoopUp(x, w, buffer, new_sum_w, 2, i)

\* the outer loop of incstats_central_moment: i = p down to 2
RECURSIVE MomentLoop(_, _, _, _, _)
MomentLoop(x, w, buffer, new_sum_w, i) ==
    IF i > 1
    THEN MomentLoop(x, w,
             [buffer EXCEPT ![i] =
                 PureTerms(Add(buffer[i],
                               CrossTerms(Zero, x, w, buffer, new_sum_w,
                                          i, i - 2)),
                           x, w, buffer, new_sum_w, i)],
             new_sum_w, i - 1)
    ELSE buffer

\* mutant: the mean is updated before the moments, which then read it
incstats_central_moment_mean_first(x, w, buffer, p) ==
    LET new_sum_w == Add(buffer[0], w)
        s1 == [buffer EXCEPT ![1] = NewMean(x, w, buffer, new_sum_w)]
        s2 == MomentLoop(x, w, s1, new_sum_w, p)
    IN  [s2 EXCEPT ![0] = new_sum_w]

incstats_central_moment(x, w, buffer, p) ==
    LET new_sum_w == Add(buffer[0], w)
        s2 == MomentLoop(x, w, buffer, new_sum_w, p)
        s1 == [s2 EXCEPT ![1] = NewMean(x, w, s2, new_sum_w)]
    IN  [s1 EXCEPT ![0] = new_sum_w]

\* ------------------------------------------------------------------------
\* Finalize functions.  Each takes the two arrays it is handed and returns
\* both as the call leaves them.
\* ------------------------------------------------------------------------
\* `mean` points to one double, modelled as an array of length 1
incstats_mean_finalize(results, buffer) ==
    [results |-> [results EXCEPT ![0] = buffer[1]], buffer |-> buffer]

\* mutant: incstats_variance_finalize refusing to divide by a zero weight
incstats_variance_finalize_guarded(results, buffer) ==
    [results |-> [results EXCEPT
                    ![0] = buffer[1],
                    ![1] = IF buffer[0] = Zero THEN Zero
                           ELSE Div(buffer[2], buffer[0])],
     buffer |-> buffer]

incstats_variance_finalize(results, buffer) ==
    [results |-> [results EXCEPT ![0] = buffer[1],
                                 ![1] = Div(buffer[2], buffer[0])],
     buffer |-> buffer]

\* (buffer[3] / buffer[0]) / ((buffer[2] / buffer[0]) * sqrt(buffer[2] / buffer[0]))
Skewness(buffer) ==
    Div(Div(buffer[3], buffer[0]),
        Mul(Div(buffer[2], buffer[0]), sqrt(Div(buffer[2], buffer[0]))))

incstats_skewness_finalize(results, buffer) ==
    [results |-> [results EXCEPT ![0] = buffer[1],
                                 ![1] = Div(buffer[2], buffer[0]),
                                 ![2] = Skewness(buffer)],
     buffer |-> buffer]

incstats_kurtosis_finalize(results, buffer) ==
    [results |-> [results EXCEPT ![0] = buffer[1],
                                 ![1] = Div(buffer[2], buffer[0]),
                                 ![2] = Skewness(buffer),
                                 ![3] = Div(Div(buffer[4], buffer[0]),
                                            incstats_pow(Div(buffer[2], buffer[0]), 2))],
     buffer |-> buffer]

\* for(i = 2; i < p + 1; i++) results[i] = buffer[i] / buffer[0]
RECURSIVE RawLoop(_, _, _, _)
RawLoop(results, buffer, i, p) ==
    IF i < p + 1
    THEN RawLoop([results EXCEPT ![i] = Div(buffer[i], buffer[0])],
                 buffer, i + 1, p)
    ELSE results

\* mutant: the moments are divided by powers of the variance, not of its
\* square root
RECURSIVE StandardizeLoopNoSqrt(_, _, _, _)
StandardizeLoopNoSqrt(results, variance, i, p) ==
    IF i < p + 1
    THEN StandardizeLoopNoSqrt(
             [results EXCEPT ![i] =
                 Div(results[i], incstats_pow(variance, i))],
             variance, i + 1, p)
    ELSE results

\* for(i = 0; i < p + 1; i++) results[i] = results[i] / pow(sqrt(variance), i)
RECURSIVE StandardizeLoop(_, _, _, _)
StandardizeLoop(results, variance, i, p) ==
    IF i < p + 1
    THEN StandardizeLoop(
             [results EXCEPT ![i] =
                 Div(results[i], incstats_pow(sqrt(variance), i))],
             variance, i + 1, p)
    ELSE results

\* `results` has length p + 2.  `variance = results[2]` reads the slot as it
\* then is; for p = 0 the slot lies beyond the array and the read yields
\* `beyond`, whatever the memory there holds.
incstats_central_moment_finalize(results, buffer, p, standardize, beyond) ==
    LET r1 == [results EXCEPT ![0] = One, ![1] = Zero]
        r2 == RawLoop(r1, buffer, 2, p)
        variance == IF 2 \in DOMAIN r2 THEN r2[2] ELSE beyond
        r3 == IF standardize THEN StandardizeLoop(r2, variance, 0, p) ELSE r2
    IN  [results |-> [r3 EXCEPT ![p + 1] = buffer[1]], buffer |-> buffer]

\* ------------------------------------------------------------------------
\* The array accesses of the generalized functions, in program order: each
\* is <<"read" or "write", array, index>>.
\* ------------------------------------------------------------------------
Rd(array, i) == <<"read", array, i>>
Wr(array, i) == <<"write", array, i>>

\* tmp += n_choose_k(i, k) * buffer[i - k] * pow(-w * (x - buffer[1]) / new_sum_w, k)
RECURSIVE CrossTermsAccesses(_, _)
CrossTermsAccesses(i, k) ==
    IF k > 0
    THEN <<Rd("buffer", i - k), Rd("buffer", 1)>> \o CrossTermsAccesses(i, k - 1)
    ELSE <<>>

RECURSIVE MomentLoopAccesses(_)
MomentLoopAccesses(i) ==
    IF i > 1
    THEN CrossTermsAccesses(i, i - 2)
         \o <<Rd("buffer", i), Rd("buffer", 0), Rd("buffer", 1),
              Rd("buffer", 0), Rd("buffer", 1), Wr("buffer", i)>>
         \o MomentLoopAccesses(i - 1)
    ELSE <<>>

incstats_central_moment_accesses(p) ==
    <<Rd("buffer", 0)>>
    \o MomentLoopAccesses(p)
    \o <<Rd("buffer", 1), Rd("buffer", 1), Wr("buffer", 1)>>
    \o <<Wr("buffer", 0)>>

\* buffer[3] = ... of incstats_skewness and incstats_kurtosis
Order3Accesses ==
    <<Rd("buffer", 3), Rd("buffer", 2), Rd("buffer", 1), Rd("buffer", 0),
      Rd("buffer", 1), Rd("buffer", 0), Rd("buffer", 1), Wr("buffer", 3)>>

\* buffer[2] = ... of incstats_skewness and incstats_kurtosis
Order2Accesses ==
    <<Rd("buffer", 2), Rd("buffer", 0), Rd("buffer", 1), Rd("buffer", 0),
      Rd("buffer", 1), Wr("buffer", 2)>>

\* buffer[4] = ... of incstats_kurtosis
Order4Accesses ==
    <<Rd("buffer", 4), Rd("buffer", 3), Rd("buffer", 1), Rd("buffer", 2),
      Rd("buffer", 1), Rd("buffer", 0), Rd("buffer", 1), Rd("buffer", 0),
      Rd("buffer", 1), Wr("buffer", 4)>>

incstats_skewness_accesses ==
    <<Rd("buffer", 0)>>
    \o Order3Accesses
    \o Order2Accesses
    \o <<Rd("buffer", 1), Rd("buffer", 1), Wr("buffer", 1)>>
    \o <<Wr("buffer", 0)>>

incstats_kurtosis_accesses ==
    <<Rd("buffer", 0)>>
    \o Order4Accesses
    \o Order3Accesses
    \o Order2Accesses
    \o <<Rd("buffer", 1), Rd("buffer", 1), Wr("buffer", 1)>>
    \o <<Wr("buffer", 0)>>

RECURSIVE RawLoopAccesses(_, _)
RawLoopAccesses(i, p) ==
    IF i < p + 1
    THEN <<Rd("buffer", i), Rd("buffer", 0), Wr("results", i)>>
         \o RawLoopAccesses(i + 1, p)
    ELSE <<>>

RECURSIVE StandardizeLoopAccesses(_, _)
StandardizeLoopAccesses(i, p) ==
    IF i < p + 1
    THEN <<Rd("results", i), Wr("results", i)>>
         \o StandardizeLoopAccesses(i + 1, p)
    ELSE <<>>

incstats_central_moment_finalize_accesses(p, standardize) ==
    <<Wr("results", 0), Wr("results", 1)>>
    \o RawLoopAccesses(2, p)
    \o (IF standardize
        THEN <<Rd("results", 2)>> \o StandardizeLoopAccesses(0, p)
        ELSE <<>>)
    \o <<Rd("buffer", 1), Wr("results", p + 1)>>

\* ------------------------------------------------------------------------
\* Extremum trackers.  `held` is the double the pointer refers to; `wrote`
\* tells whether the call stored to it.
\* ------------------------------------------------------------------------
\* mutant: a tie replaces the held value
incstats_max_or_equal(x, max) ==
    IF ~Less(x, max) THEN [held |-> x, wrote |-> TRUE]
    ELSE [held |-> max, wrote |-> FALSE]

incstats_max(x, max) ==
    IF Less(max, x) THEN [held |-> x, wrote |-> TRUE]
    ELSE [held |-> max, wrote |-> FALSE]

incstats_min(x, min) ==
    IF Less(x, min) THEN [held |-> x, wrote |-> TRUE]
    ELSE [held |-> min, wrote |-> FALSE]

\* ------------------------------------------------------------------------
\* The caller: one accumulator, fed one sample per call and finalized at
\* any time into one results array (the shape of every test of
\* test_rstats.c), or one extremum tracker.
\* ------------------------------------------------------------------------
VARIABLES
    fn,       \* the statistic the caller computes
    p,        \* its order (the argument p of the generalized functions)
    hist,     \* the samples <<x, w>> passed to the update function so far
    buffer,   \* the accumulator
    results,  \* the results array handed to finalize
    last,     \* the last call made
    seed,     \* the value the tracker was seeded with
    held,     \* the tracker's double
    fed,      \* the samples passed to the tracker so far
    wrote,    \* whether the tracker's last call stored
    prim      \* a call of an arithmetic primitive, statement by statement

vars == <<fn, p, hist, buffer, results, last, seed, held, fed, wrote, prim>>

\* the samples <<x, w>> the caller draws from: three values, unequal
\* positive weights and a zero weight
Samples ==
    {<<R(-1), One>>, <<R(-1), R(2)>>, <<Zero, One>>, <<Zero, R(2)>>,
     <<R(2), One>>, <<R(2), Zero>>}

\* what a read beyond the end of an array may yield
Beyond == {NaN, R(-1), Zero, One}

\* the samples of test_rstats_max / test_rstats_min (2.0123 and M_PI as
\* decimal fractions)
TestSeq ==
    <<R(4), R(8), R(12), R(16), R(23), R(45), R(678), R(123),
      <<20123, 10000, 1>>, <<3927, 1250, 1>>>>

\* seeds: stand-ins for DBL_MIN (a tiny positive value) and DBL_MAX (above
\* every sample), and a seed inside the range of the samples
Seeds == {<<1, 1000, 1>>, R(1000), R(16)}

Range(s) == {s[i] : i \in 1..Len(s)}

IsPrefix(s, t) == Len(s) <= Len(t) /\ \A i \in 1..Len(s) : s[i] = t[i]

Order(f, q) ==
    CASE f = "mean" -> 1
      [] f = "variance" -> 2
      [] f = "skewness" -> 3
      [] f = "kurtosis" -> 4
      [] OTHER -> q

\* buffer lengths as documented: 2, 3, 4, 5, and max(2, p + 1)
BufferLen(f, q) == IF Order(f, q) < 1 THEN 2 ELSE Order(f, q) + 1

\* results lengths as documented: 1, 2, 3, 4, and p + 2
ResultsLen(f, q) == IF f = "central_moment" THEN q + 2 ELSE Order(f, q)

Zeros(n) == [i \in 0..(n - 1) |-> Zero]

Call(op, x, w, standardize) ==
    [op |-> op, x |-> x, w |-> w, standardize |-> standardize]

NoTracker ==
    /\ seed = Zero
    /\ held = Zero
    /\ fed = <<>>
    /\ wrote = FALSE

NoPrimitive == prim = [fn |-> "none"]

\* double buffer[n] = {0.0}; double results[m] = {0.0};
Init ==
    /\ fn \in {"mean", "variance", "skewness", "kurtosis", "central_moment"}
    /\ p \in (IF fn = "central_moment" THEN 0..MaxP ELSE {Order(fn, 0)})
    /\ hist = <<>>
    /\ buffer = Zeros(BufferLen(fn, p))
    /\ results = Zeros(ResultsLen(fn, p))
    /\ last = Call("none", Zero, Zero, FALSE)
    /\ NoTracker
    /\ NoPrimitive

Updated(x, w, b) ==
    /\ Len(hist) < MaxLen
    /\ buffer' = b
    /\ hist' = Append(hist, <<x, w>>)
    /\ last' = Call("update", x, w, FALSE)
    /\ UNCHANGED <<fn, p, results, seed, held, fed, wrote, prim>>

Mean(x, w) ==
    /\ fn = "mean"
    /\ Updated(x, w, incstats_mean(x, w, buffer))

Variance(x, w) ==
    /\ fn = "variance"
    /\ Updated(x, w, incstats_variance(x, w, buffer))

Skewness3(x, w) ==
    /\ fn = "skewness"
    /\ Updated(x, w, incstats_skewness(x, w, buffer))

Kurtosis(x, w) ==
    /\ fn = "kurtosis"
    /\ Updated(x, w, incstats_kurtosis(x, w, buffer))

CentralMoment(x, w) ==
    /\ fn = "central_moment"
    /\ Updated(x, w, incstats_central_moment(x, w, buffer, p))

Finalized(r, standardize) ==
    /\ results' = r.results
    /\ buffer' = r.buffer
    /\ last' = Call("finalize", Zero, Zero, standardize)
    /\ UNCHANGED <<fn, p, hist, seed, held, fed, wrote, prim>>

MeanFinalize ==
    /\ fn = "mean"
    /\ Finalized(incstats_mean_finalize(results, buffer), FALSE)

VarianceFinalize ==
    /\ fn = "variance"
    /\ Finalized(incstats_variance_finalize(results, buffer), FALSE)

SkewnessFinalize ==
    /\ fn = "skewness"
    /\ Finalized(incstats_skewness_finalize(results, buffer), FALSE)

KurtosisFinalize ==
    /\ fn = "kurtosis"
    /\ Finalized(incstats_kurtosis_finalize(results, buffer), FALSE)

CentralMomentFinalize(standardize) ==
    /\ fn = "central_moment"
    /\ \E beyond \in Beyond :
          Finalized(incstats_central_moment_finalize(
                        results, buffer, p, standardize, beyond),
                    standardize)

Next ==
    \/ \E s \in Samples : Mean(s[1], s[2])
    \/ \E s \in Samples : Variance(s[1], s[2])
    \/ \E s \in Samples : Skewness3(s[1], s[2])
    \/ \E s \in Samples : Kurtosis(s[1], s[2])
    \/ \E s \in Samples : CentralMoment(s[1], s[2])
    \/ MeanFinalize
    \/ VarianceFinalize
    \/ SkewnessFinalize
    \/ KurtosisFinalize
    \/ \E standardize \in BOOLEAN : CentralMomentFinalize(standardize)

Spec == Init /\ [][Next]_vars

\* ------------------------------------------------------------------------
\* The caller of an extremum tracker
\* ------------------------------------------------------------------------
InitExt ==
    /\ fn \in {"max", "min"}
    /\ p = 0
    /\ hist = <<>>
    /\ buffer = Zeros(2)
    /\ results = Zeros(1)
    /\ last = Call("none", Zero, Zero, FALSE)
    /\ seed \in Seeds
    /\ held = seed
    /\ fed = <<>>
    /\ wrote = FALSE
    /\ NoPrimitive

Tracked(x, r) ==
    /\ Len(fed) < MaxLen \/ (IsPrefix(fed, TestSeq) /\ fed # TestSeq)
    /\ held' = r.held
    /\ wrote' = r.wrote
    /\ fed' = Append(fed, x)
    /\ last' = Call("track", x, Zero, FALSE)
    /\ UNCHANGED <<fn, p, hist, buffer, results, seed, prim>>

Max(x) ==
    /\ fn = "max"
    /\ Tracked(x, incstats_max(x, held))

Min(x) ==
    /\ fn = "min"
    /\ Tracked(x, incstats_min(x, held))

NextExt ==
    \/ \E x \in Range(TestSeq) : Max(x)
    \/ \E x \in Range(TestSeq) : Min(x)

SpecExt == InitExt /\ [][NextExt]_vars

\* ------------------------------------------------------------------------
\* One call of an arithmetic primitive, taken one statement at a time
\* ------------------------------------------------------------------------
NoAccumulator ==
    /\ p = 0
    /\ hist = <<>>
    /\ buffer = Zeros(2)
    /\ results = Zeros(1)
    /\ last = Call("none", Zero, Zero, FALSE)

Larger(a, b) == IF a > b THEN a ELSE b

\* n_choose_k(n, k) entered with 0 <= k <= n: uint64_t result = 1;
InitChoose ==
    /\ fn = "n_choose_k"
    /\ NoAccumulator
    /\ NoTracker
    /\ \E n \in 0..MaxN : \E k \in 0..n :
          prim = [fn |-> "n_choose_k", n0 |-> n, k0 |-> k, n |-> n, k |-> k,
                  j |-> 0, result |-> 1, pc |-> "smaller", passes |-> 0,
                  exact |-> TRUE, peak |-> 1, third |-> FALSE]

Stepped(next) ==
    /\ prim' = next
    /\ UNCHANGED <<fn, p, hist, buffer, results, last, seed, held, fed, wrote>>

\* k = k > n-k ? n-k : k;  and the loop's j = 1
ChooseSmaller ==
    /\ prim.pc = "smaller"
    /\ Stepped([prim EXCEPT
                   !.k = IF prim.k > prim.n - prim.k THEN prim.n - prim.k
                         ELSE prim.k,
                   !.j = 1,
                   !.pc = "loop"])

\* one pass of the loop body, then j++, n--
ChoosePass ==
    /\ prim.pc = "loop"
    /\ prim.j <= prim.k
    /\ Stepped([prim EXCEPT
                   !.result = NChooseKStep(prim.result, prim.n, prim.j),
                   !.exact = prim.exact
                       /\ NChooseKDividend(prim.result, prim.n, prim.j)
                              % prim.j = 0,
                   !.peak = Larger(prim.peak,
                               NChooseKProduct(prim.result, prim.n, prim.j)),
                   !.third = prim.third
                       \/ (prim.n % prim.j # 0 /\ prim.result % prim.j # 0),
                   !.passes = prim.passes + 1,
                   !.n = prim.n - 1,
                   !.j = prim.j + 1])

\* j <= k fails: return result;
ChooseReturn ==
    /\ prim.pc = "loop"
    /\ ~(prim.j <= prim.k)
    /\ Stepped([prim EXCEPT !.pc = "done"])

NextChoose ==
    \/ ChooseSmaller
    \/ ChoosePass
    \/ ChooseReturn

SpecChoose == InitChoose /\ [][NextChoose]_vars

\* bases: zero, one, negative, fractional, irrational, infinite, NaN
PowBases ==
    {Zero, One, R(-1), R(2), R(-3), <<1, 2, 1>>, <<1, 1, 2>>, PInf, NInf,
     NaN}

\* incstats_pow(x, y) entered: double result = x;
InitPow ==
    /\ fn = "incstats_pow"
    /\ NoAccumulator
    /\ NoTracker
    /\ \E x \in PowBases : \E y \in 0..MaxY :
          prim = [fn |-> "incstats_pow", x |-> x, y |-> y, i |-> 0,
                  result |-> x, pc |-> "test", mults |-> 0,
                  bound_at |-> {}, returned |-> Zero]

\* if(y == 0) return 1.0;  else the loop's i = 0
PowTest ==
    /\ prim.pc = "test"
    /\ Stepped(IF prim.y = 0
                 THEN [prim EXCEPT !.pc = "done", !.returned = One]
                 ELSE [prim EXCEPT !.pc = "loop", !.i = 0])

\* i < y - 1 holds: result *= x; i++
PowPass ==
    /\ prim.pc = "loop"
    /\ PowContinues(prim.i, prim.y)
    /\ Stepped([prim EXCEPT
                   !.result = Mul(prim.result, prim.x),
                   !.mults = prim.mults + 1,
                   !.bound_at = prim.bound_at \cup {prim.y},
                   !.i = prim.i + 1])

\* i < y - 1 fails: return result;
PowReturn ==
    /\ prim.pc = "loop"
    /\ ~PowContinues(prim.i, prim.y)
    /\ Stepped([prim EXCEPT
                   !.bound_at = prim.bound_at \cup {prim.y},
                   !.returned = prim.result,
                   !.pc = "done"])

NextPow ==
    \/ PowTest
    \/ PowPass
    \/ PowReturn

\* a call, once entered, runs: nothing in it waits
SpecPow == InitPow /\ [][NextPow]_vars /\ WF_vars(NextPow)

\* ------------------------------------------------------------------------
\* Reference quantities, computed directly from the stream as the tests do
\* ------------------------------------------------------------------------
RECURSIVE Power(_, _)
Power(a, n) == IF n = 0 THEN One ELSE Mul(a, Power(a, n - 1))

\* sum of w_i
RECURSIVE SumW(_)
SumW(h) == IF h = <<>> THEN Zero ELSE Add(SumW(Tail(h)), Head(h)[2])

\* sum of w_i * x_i
RECURSIVE WeightedSum(_)
WeightedSum(h) ==
    IF h = <<>> THEN Zero
    ELSE Add(WeightedSum(Tail(h)), Mul(Head(h)[2], Head(h)[1]))

WeightedMean(h) == Div(WeightedSum(h), SumW(h))

\* sum of w_i * (x_i - m)^i
RECURSIVE CenteredSum(_, _, _)
CenteredSum(h, m, i) ==
    IF h = <<>> THEN Zero
    ELSE Add(CenteredSum(Tail(h), m, i),
             Mul(Head(h)[2], Power(Sub(Head(h)[1], m), i)))

\* sum of w_i * (x_i - mean)^i against the mean of the whole stream
CentralSum(h, i) == CenteredSum(h, WeightedMean(h), i)

\* sum of w_i * (x_i - mean)^i / sum of w_i
CentralMomentOf(h, i) == Div(CentralSum(h, i), SumW(h))

AllPositive(h) == \A j \in 1..Len(h) : Less(Zero, h[j][2])

Updating == fn \in {"mean", "variance", "skewness", "kurtosis", "central_moment"}

\* ------------------------------------------------------------------------
\* C1: from a zero-initialised buffer, after any non-empty sequence of
\* updates with positive weights by any one update function, buffer[0] is
\* the sum of the weights and buffer[1] the weighted mean of the samples,
\* after every update.
\* ------------------------------------------------------------------------
C1_WeightAndMean ==
    (Updating /\ hist # <<>> /\ AllPositive(hist)) =>
        /\ buffer[0] = SumW(hist)
        /\ buffer[1] = WeightedMean(hist)

C1_Witness ==
    /\ fn = "mean"
    /\ Len(hist) = 3
    /\ AllPositive(hist)
    /\ Cardinality({hist[j][1] : j \in 1..3}) = 3
    /\ Cardinality({hist[j][2] : j \in 1..3}) = 2
    /\ buffer[0] = SumW(hist)
    /\ buffer[1] = WeightedMean(hist)

\* ------------------------------------------------------------------------
\* C2: after any non-empty sequence of incstats_variance updates with
\* positive weights, buffer[2] is sum(w_i (x_i - mean)^2) against the final
\* mean after every update, and incstats_variance_finalize writes the mean
\* to results[0] and that sum over the sum of weights to results[1].
\* ------------------------------------------------------------------------
C2_Variance ==
    (fn = "variance" /\ hist # <<>> /\ AllPositive(hist)) =>
        /\ buffer[2] = CentralSum(hist, 2)
        /\ last.op = "finalize" =>
              /\ results[0] = WeightedMean(hist)
              /\ results[1] = CentralMomentOf(hist, 2)

C2_Witness ==
    /\ fn = "variance"
    /\ Len(hist) = 3
    /\ AllPositive(hist)
    /\ Cardinality({hist[j][1] : j \in 1..3}) = 3
    /\ last.op = "finalize"
    /\ results[1] = CentralMomentOf(hist, 2)
    /\ results[1] # Zero

\* ------------------------------------------------------------------------
\* C3: after at least two incstats_skewness or incstats_kurtosis updates
\* with positive weights and non-zero variance, buffer[3] (and buffer[4] for
\* kurtosis) is the centered power sum against the final mean, finalized
\* skewness is (m3/W) / (m2/W)^1.5 and finalized kurtosis (m4/W) / (m2/W)^2,
\* with no subtraction of 3.
\* ------------------------------------------------------------------------
RefSkewness(h) ==
    Div(CentralMomentOf(h, 3), Power(sqrt(CentralMomentOf(h, 2)), 3))

RefKurtosis(h) ==
    Div(CentralMomentOf(h, 4), Power(CentralMomentOf(h, 2), 2))

C3_Case ==
    /\ fn \in {"skewness", "kurtosis"}
    /\ Len(hist) >= 2
    /\ AllPositive(hist)
    /\ CentralSum(hist, 2) # Zero

C3_SkewnessKurtosis ==
    C3_Case =>
        /\ buffer[3] = CentralSum(hist, 3)
        /\ fn = "kurtosis" => buffer[4] = CentralSum(hist, 4)
        /\ last.op = "finalize" =>
              /\ results[2] = RefSkewness(hist)
              /\ fn = "kurtosis" => results[3] = RefKurtosis(hist)

C3_Witness ==
    /\ C3_Case
    /\ fn = "kurtosis"
    /\ Len(hist) = 3
    /\ last.op = "finalize"
    /\ results[2] = RefSkewness(hist)
    /\ results[2] # Zero
    /\ results[2][3] # 1
    /\ results[3] = RefKurtosis(hist)
    /\ results[3] # R(3)

\* ------------------------------------------------------------------------
\* C4: for every order p >= 2, after any non-empty sequence of
\* incstats_central_moment updates with positive weights,
\* incstats_central_moment_finalize with standardize = false writes the
\* weighted central moment of order i to results[i] for every i in 2..p and
\* the weighted mean to results[p + 1].
\* ------------------------------------------------------------------------
C4_Case ==
    /\ fn = "central_moment"
    /\ p >= 2
    /\ hist # <<>>
    /\ AllPositive(hist)
    /\ last.op = "finalize"
    /\ ~last.standardize

C4_CentralMoments ==
    C4_Case =>
        /\ \A i \in 2..p : results[i] = CentralMomentOf(hist, i)
        /\ results[p + 1] = WeightedMean(hist)

C4_Witness ==
    /\ C4_Case
    /\ p = 4
    /\ Len(hist) = 3
    /\ \A i \in 2..4 : results[i] = CentralMomentOf(hist, i) /\ results[i] # Zero
    /\ results[5] = WeightedMean(hist)

\* ------------------------------------------------------------------------
\* C5: for p = 2, 3, 4, incstats_central_moment of order p and the
\* specialized update (variance, skewness, kurtosis) fed the same stream
\* from zero-initialised buffers hold the same slots 0..p after every
\* update (a slot that is NaN in one is NaN in the other), and the
\* generalized finalize's raw variance and standardized skewness and
\* kurtosis are those the specialized finalizer reports.
\* ------------------------------------------------------------------------
Specialized(q) ==
    CASE q = 2 -> "variance"
      [] q = 3 -> "skewness"
      [] q = 4 -> "kurtosis"

\* the update function of statistic f applied to one sample
Apply(f, q, x, w, b) ==
    CASE f = "mean" -> incstats_mean(x, w, b)
      [] f = "variance" -> incstats_variance(x, w, b)
      [] f = "skewness" -> incstats_skewness(x, w, b)
      [] f = "kurtosis" -> incstats_kurtosis(x, w, b)
      [] f = "central_moment" -> incstats_central_moment(x, w, b, q)

\* the accumulator of statistic f fed the stream h from a zeroed buffer,
\* with no finalize call in between
RECURSIVE Replay(_, _, _)
Replay(f, q, h) ==
    IF h = <<>> THEN Zeros(BufferLen(f, q))
    ELSE LET prev == Replay(f, q, SubSeq(h, 1, Len(h) - 1))
         IN  Apply(f, q, h[Len(h)][1], h[Len(h)][2], prev)

\* what the specialized finalizer of order q reports for the stream h
SpecializedResults(q, h) ==
    LET twin == Replay(Specialized(q), q, h)
        out == Zeros(ResultsLen(Specialized(q), q))
    IN  CASE q = 2 -> incstats_variance_finalize(out, twin).results
          [] q = 3 -> incstats_skewness_finalize(out, twin).results
          [] q = 4 -> incstats_kurtosis_finalize(out, twin).results

C5_Case == fn = "central_moment" /\ p \in 2..4

C5_Agreement ==
    C5_Case =>
        /\ \A i \in 0..p : buffer[i] = Replay(Specialized(p), p, hist)[i]
        /\ last.op = "finalize" =>
              LET special == SpecializedResults(p, hist)
              IN  /\ results[p + 1] = special[0]
                  /\ ~last.standardize => results[2] = special[1]
                  /\ (last.standardize /\ p >= 3) => results[3] = special[2]
                  /\ (last.standardize /\ p >= 4) => results[4] = special[3]

C5_Witness ==
    /\ C5_Case
    /\ p = 4
    /\ Len(hist) = 3
    /\ AllPositive(hist)
    /\ last.op = "finalize"
    /\ last.standardize
    /\ results[3] = SpecializedResults(4, hist)[2]
    /\ results[4] = SpecializedResults(4, hist)[3]
    /\ IsFinite(results[3]) /\ results[3] # Zero
    /\ results[3][3] # 1

\* ------------------------------------------------------------------------
\* C6: every finalize function leaves every slot of the accumulator
\* unchanged; so the accumulator reached with finalize calls interleaved is
\* the one reached by the same updates alone, and two consecutive finalize
\* calls (same arguments) on an unmodified accumulator write identical
\* results.
\* ------------------------------------------------------------------------
C6_BufferKept == [][last'.op = "finalize" => buffer' = buffer]_vars

C6_AsWithoutFinalize == Updating => buffer = Replay(fn, p, hist)

C6_SameResultsTwice ==
    [][(/\ last.op = "finalize"
        /\ last'.op = "finalize"
        /\ last'.standardize = last.standardize) => results' = results]_vars

C6_FinalizeNonDestructive ==
    C6_BufferKept /\ []C6_AsWithoutFinalize /\ C6_SameResultsTwice

\* ------------------------------------------------------------------------
\* C7: for every update function and every accumulator whose cumulative
\* weight buffer[0] is positive, an update with weight 0 leaves every slot
\* of the accumulator unchanged.
\* ------------------------------------------------------------------------
C7_ZeroWeightNoOp ==
    [][(/\ last'.op = "update"
        /\ hist' # hist
        /\ last'.w = Zero
        /\ Less(Zero, buffer[0])) => buffer' = buffer]_vars

C7_Witness ==
    /\ fn = "skewness"
    /\ Len(hist) = 3
    /\ last.op = "update"
    /\ last.w = Zero
    /\ AllPositive(SubSeq(hist, 1, 2))
    /\ buffer = Replay(fn, p, SubSeq(hist, 1, 2))
    /\ buffer[3] # Zero
    /\ last.x # buffer[1]

\* ------------------------------------------------------------------------
\* C8: incstats_max stores x only if it is strictly greater than the held
\* value and incstats_min only if it is strictly less; so the held maximum
\* (minimum) is the greatest (least) of the seed and the samples seen, never
\* decreases (increases), and after the test sequence, unless the seed
\* lies above (below) every sample, it is 678 (2.0123).
\* ------------------------------------------------------------------------
Greatest(S) == CHOOSE m \in S : \A y \in S : ~Less(m, y)
Least(S) == CHOOSE m \in S : \A y \in S : ~Less(y, m)

C8_StrictOnly ==
    [][(last'.op = "track" /\ fed' # fed) =>
          /\ fn = "max" => (wrote' <=> Less(held, last'.x))
          /\ fn = "min" => (wrote' <=> Less(last'.x, held))
          /\ held' = (IF wrote' THEN last'.x ELSE held)]_vars

C8_Extremum ==
    /\ fn = "max" =>
          /\ held = Greatest({seed} \cup Range(fed))
          /\ (fed = TestSeq /\ \E y \in Range(fed) : ~Less(y, seed)) =>
                held = R(678)
    /\ fn = "min" =>
          /\ held = Least({seed} \cup Range(fed))
          /\ (fed = TestSeq /\ \E y \in Range(fed) : ~Less(seed, y)) =>
                held = <<20123, 10000, 1>>

C8_Monotone ==
    [][/\ fn = "max" => ~Less(held', held)
       /\ fn = "min" => ~Less(held, held')]_vars

C8_Trackers == C8_StrictOnly /\ []C8_Extremum /\ C8_Monotone

C8_Witness ==
    /\ fn = "max"
    /\ fed = TestSeq
    /\ Less(seed, R(4))
    /\ held = R(678)
    /\ ~wrote

\* ------------------------------------------------------------------------
\* C9 as claimed: for every order p, every accumulator state and both
\* flags, incstats_central_moment_finalize writes results[0] = 1,
\* results[1] = 0 and results[p + 1] = buffer[1], and with standardize = true
\* results[i] = (buffer[i] / buffer[0]) / sqrt(buffer[2] / buffer[0])^i for
\* every i in 2..p.
\* ------------------------------------------------------------------------
C9_Case == fn = "central_moment" /\ last.op = "finalize"

RunningVariance == Div(buffer[2], buffer[0])

C9_Standardized ==
    last.standardize =>
        \A i \in 2..p :
            results[i] = Div(Div(buffer[i], buffer[0]),
                             Power(sqrt(RunningVariance), i))

C9_AsClaimed ==
    C9_Case =>
        /\ results[0] = One
        /\ results[1] = Zero
        /\ results[p + 1] = buffer[1]
        /\ C9_Standardized

\* ------------------------------------------------------------------------
\* C9 as amended: for every order p, every accumulator state and both
\* flags, results[0] = 1 and results[p + 1] = buffer[1]; results[1] = 0 when
\* p >= 1 and standardize = false, or when p >= 2, standardize = true and
\* the variance buffer[2] / buffer[0] is positive; with p >= 2 and
\* standardize = true results[1] is NaN when that variance is 0 or NaN; and
\* with standardize = true results[i] is
\* (buffer[i] / buffer[0]) / sqrt(buffer[2] / buffer[0])^i for i in 2..p.
\* ------------------------------------------------------------------------
C9_Finalize ==
    C9_Case =>
        /\ results[0] = One
        /\ results[p + 1] = buffer[1]
        /\ (p >= 1 /\ ~last.standardize) => results[1] = Zero
        /\ (p >= 2 /\ last.standardize /\ Less(Zero, RunningVariance)) =>
              results[1] = Zero
        /\ (p >= 2 /\ last.standardize
                /\ (RunningVariance = Zero \/ IsNaN(RunningVariance))) =>
              IsNaN(results[1])
        /\ C9_Standardized

C9_Witness ==
    /\ C9_Case
    /\ p = 4
    /\ last.standardize
    /\ Len(hist) = 3
    /\ Less(Zero, RunningVariance)
    /\ sqrt(RunningVariance)[3] # 1
    /\ results[1] = Zero
    /\ results[2] = One
    /\ C9_Standardized
    /\ results[3] # Zero
    /\ results[5] = buffer[1]
    /\ buffer[1] # Zero

\* ------------------------------------------------------------------------
\* C10: for every order p >= 0, with a buffer of length p + 1 and results
\* of length p + 2, incstats_central_moment reads and writes only buffer
\* indices 0..p, and incstats_central_moment_finalize reads only buffer
\* indices 0..p, accesses only results indices 0..p + 1 and never reads a
\* results slot it has not already written in the same call.
\* ------------------------------------------------------------------------
Within(t, array, S) ==
    \A j \in 1..Len(t) : t[j][2] = array => t[j][3] \in S

ReadsOnlyWritten(t, array) ==
    \A j \in 1..Len(t) :
        (t[j][1] = "read" /\ t[j][2] = array) =>
            \E k \in 1..(j - 1) : t[k] = Wr(array, t[j][3])

C10_WithinDocumentedSizes ==
    fn = "central_moment" =>
        /\ last.op = "update" =>
              Within(incstats_central_moment_accesses(p), "buffer", 0..p)
        /\ last.op = "finalize" =>
              LET t == incstats_central_moment_finalize_accesses(
                           p, last.standardize)
              IN  /\ Within(t, "buffer", 0..p)
                  /\ Within(t, "results", 0..(p + 1))
                  /\ ReadsOnlyWritten(t, "results")

\* the same holds of every order p >= 2
C10_FromOrderTwo == p >= 2 => C10_WithinDocumentedSizes

\* ------------------------------------------------------------------------
\* C11
\* ------------------------------------------------------------------------
\* row n of Pascal's triangle from the row above it
RECURSIVE PascalRowFrom(_, _)
PascalRowFrom(prev, i) ==
    IF i > Len(prev) + 1 THEN <<>>
    ELSE <<(IF i = 1 THEN 0 ELSE prev[i - 1])
             + (IF i = Len(prev) + 1 THEN 0 ELSE prev[i])>>
         \o PascalRowFrom(prev, i + 1)

RECURSIVE PascalRows(_, _)
PascalRows(rows, n) ==
    IF Len(rows) > n THEN rows
    ELSE PascalRows(Append(rows, PascalRowFrom(rows[Len(rows)], 1)), n)

PascalTriangle == PascalRows(<<<<1>>>>, MaxN)

\* C(n, k), by Pascal's rule
Binomial(n, k) == PascalTriangle[n + 1][k + 1]

Choosing == prim.fn = "n_choose_k" /\ prim.pc \in {"loop", "done"}

\* C11: for 0 <= k <= n <= MaxN, n_choose_k(n, k) runs min(k, n-k) passes;
\* after pass j the running result is C(n, j); every division performed
\* is exact; every product formed stays below 2^31, hence far inside the
\* unsigned 64-bit range; the value returned is C(n, k), which where the
\* factorials can be written (n <= 12) is n!/(k!(n-k)!).
C11_ChooseExact ==
    Choosing =>
        /\ prim.passes = prim.j - 1
        /\ prim.n = prim.n0 - prim.passes
        /\ prim.result = Binomial(prim.n0, prim.passes)
        /\ prim.exact
        /\ prim.peak \div 65536 < 32768
        /\ prim.pc = "done" =>
              /\ prim.passes = (IF prim.k0 > prim.n0 - prim.k0
                                 THEN prim.n0 - prim.k0 ELSE prim.k0)
              /\ prim.result = Binomial(prim.n0, prim.k0)
              /\ prim.result = n_choose_k(prim.n0, prim.k0)
              /\ prim.n0 <= 12 =>
                    prim.result * factorial(prim.k0)
                        * factorial(prim.n0 - prim.k0) = factorial(prim.n0)

\* C(20, 10) returned, the third branch of the loop body taken on the way
C11_Witness ==
    /\ Choosing
    /\ prim.pc = "done"
    /\ prim.n0 = 20
    /\ prim.k0 = 10
    /\ prim.third
    /\ prim.result = 184756

\* ------------------------------------------------------------------------
\* C12
\* ------------------------------------------------------------------------
Powering == prim.fn = "incstats_pow"

C12_Returned ==
    (Powering /\ prim.pc = "done") =>
        /\ prim.returned = Power(prim.x, prim.y)
        /\ prim.returned = incstats_pow(prim.x, prim.y)
        /\ prim.y >= 1 => prim.mults = prim.y - 1
        /\ prim.y = 0 =>
              /\ prim.returned = One
              /\ prim.mults = 0
              /\ prim.bound_at = {}

C12_BoundNeverWraps == Powering => 0 \notin prim.bound_at

\* C12: incstats_pow(x, y) returns x multiplied by itself y times after
\* exactly y - 1 multiplications for y >= 1; for y = 0 it returns 1
\* whatever x is, without entering the loop, so that y - 1 is never
\* evaluated at y = 0; and every call returns.
C12_Pow ==
    /\ [](C12_Returned /\ C12_BoundNeverWraps)
    /\ <>(Powering /\ prim.pc = "done")

\* a call with several multiplications has returned, and so has one with
\* y = 0 and x = 0 (one behaviour each; the witness names the first)
C12_Witness ==
    /\ Powering
    /\ prim.pc = "done"
    /\ prim.y = 4
    /\ prim.x = R(-3)
    /\ prim.mults = 3
    /\ prim.returned = R(81)

\* ------------------------------------------------------------------------
\* C13
\* ------------------------------------------------------------------------
\* where finalize puts the mean, and the statistic of order i >= 2
MeanAt == IF fn = "central_moment" THEN p + 1 ELSE 0

OrderAt(i) == IF fn = "central_moment" THEN i ELSE i - 1

Undefined(v) == IsNaN(v) \/ IsInf(v)

\* a value a double can hold: finite, +Inf, -Inf or NaN
IsDouble(v) ==
    /\ v[2] >= 0
    /\ v[3] >= 1
    /\ v[2] = 0 => v \in {NaN, PInf, NInf}

C13_Case == Updating /\ last.op = "finalize" /\ buffer[0] = Zero

\* the void functions have no failing outcome: every call returns with
\* both arrays whole and a double in every slot
C13_NoError ==
    Updating =>
        /\ DOMAIN buffer = 0..(BufferLen(fn, p) - 1)
        /\ DOMAIN results = 0..(ResultsLen(fn, p) - 1)
        /\ \A i \in DOMAIN buffer : IsDouble(buffer[i])
        /\ \A i \in DOMAIN results : IsDouble(results[i])

C13_HigherOrdersUndefined ==
    C13_Case => \A i \in 2..Order(fn, p) : IsNaN(results[OrderAt(i)])

\* the claim as stated: with zero cumulative weight every derived result,
\* the mean included, is NaN or Inf
C13_AsClaimed ==
    C13_Case =>
        /\ Undefined(results[MeanAt])
        /\ \A i \in 2..Order(fn, p) : Undefined(results[OrderAt(i)])

\* C13: no update and no finalize reports an error; whenever buffer[0] is
\* 0 at finalize time, finalize returns normally, the variance, skewness,
\* kurtosis and central moments of order 2..p it writes are NaN, and the
\* mean it writes is NaN when an update (of weight 0) occurred before, but
\* 0 when no update occurred: finalize copies the zero-initialised
\* buffer[1].
C13_ZeroWeightFinalize ==
    /\ C13_NoError
    /\ C13_HigherOrdersUndefined
    /\ C13_Case =>
          results[MeanAt] = (IF hist = <<>> THEN Zero ELSE NaN)

\* kurtosis finalized before any update: mean 0, the rest NaN
C13_Witness ==
    /\ fn = "kurtosis"
    /\ hist = <<>>
    /\ last.op = "finalize"
    /\ buffer[0] = Zero
    /\ results[0] = Zero
    /\ IsNaN(results[1])
    /\ IsNaN(results[2])
    /\ IsNaN(results[3])

\* ------------------------------------------------------------------------
\* C14
\* ------------------------------------------------------------------------
C14_Case ==
    \/ fn \in {"skewness", "kurtosis"}
    \/ fn = "central_moment" /\ p >= 2

UpdateAccesses ==
    CASE fn = "skewness" -> incstats_skewness_accesses
      [] fn = "kurtosis" -> incstats_kurtosis_accesses
      [] OTHER -> incstats_central_moment_accesses(p)

\* the indices written, in the order they are written
RECURSIVE WritesOf(_)
WritesOf(t) ==
    IF t = <<>> THEN <<>>
    ELSE (IF Head(t)[1] = "write" THEN <<Head(t)[3]>> ELSE <<>>)
         \o WritesOf(Tail(t))

\* q, q - 1, ..., 0
Descending(q) == [j \in 1..(q + 1) |-> q + 1 - j]

NoReadAfterWrite(t) ==
    \A a \in 1..Len(t) : \A b \in (a + 1)..Len(t) :
        ~(t[a][1] = "write" /\ t[b][1] = "read" /\ t[b][3] = t[a][3])

\* sum over k = 1..m of C(i, k) * snapshot[i - k] * d^k
RECURSIVE StagedCross(_, _, _, _)
StagedCross(snapshot, d, i, m) ==
    IF m < 1 THEN Zero
    ELSE Add(StagedCross(snapshot, d, i, m - 1),
             Mul(Mul(R(Binomial(i, m)), snapshot[i - m]), Power(d, m)))

\* every slot computed from the snapshot alone, then committed at once
Staged(x, w, snapshot, q) ==
    LET old_weight == snapshot[0]
        new_weight == Add(old_weight, w)
        deviation == Sub(x, snapshot[1])
        d == Div(Mul(Neg(w), deviation), new_weight)
        e == Div(Mul(old_weight, deviation), new_weight)
    IN  [i \in DOMAIN snapshot |->
            IF i = 0 THEN new_weight
            ELSE IF i = 1
            THEN Add(snapshot[1], Mul(Div(w, new_weight), deviation))
            ELSE IF i <= q
            THEN Add(Add(Add(snapshot[i],
                             StagedCross(snapshot, d, i, i - 2)),
                         Mul(old_weight, Power(d, i))),
                     Mul(w, Power(e, i)))
            ELSE snapshot[i]]

C14_WriteOrder ==
    C14_Case =>
        /\ WritesOf(UpdateAccesses) = Descending(Order(fn, p))
        /\ NoReadAfterWrite(UpdateAccesses)

C14_AsStaged ==
    [][(C14_Case /\ last'.op = "update" /\ hist' # hist) =>
           buffer' = Staged(last'.x, last'.w, buffer, Order(fn, p))]_vars

\* C14: within one call of incstats_central_moment (p >= 2),
\* incstats_kurtosis or incstats_skewness the orders are written from the
\* highest down to 2, then the mean, then the weight, and no slot is read
\* after it was written in the call; the buffer the call leaves is the one
\* a staged computation gives that reads only a snapshot taken before the
\* call (cross terms C(i,k) * buffer[i-k] * d^k for k = 1..i-2, plus
\* old_weight * d^i + w * e^i) and commits all slots at the end.
C14_InPlaceIsStaged == []C14_WriteOrder /\ C14_AsStaged

\* a third update of order 4 on a buffer whose orders 2 and 3 are not 0,
\* with a sample off the mean
C14_Witness ==
    /\ fn = "central_moment"
    /\ p = 4
    /\ Len(hist) = 3
    /\ last.op = "update"
    /\ Less(Zero, last.w)
    /\ LET before == Replay(fn, p, SubSeq(hist, 1, 2))
       IN  /\ before[2] # Zero
           /\ before[3] # Zero
           /\ last.x # before[1]
           /\ buffer = Staged(last.x, last.w, before, 4)
           /\ buffer[4] # before[4]

\* ------------------------------------------------------------------------
\* C15
\* ------------------------------------------------------------------------
\* some update so far had weight 0 while the cumulative weight was 0
C15_Case ==
    /\ Updating
    /\ \E j \in 1..Len(hist) :
          /\ hist[j][2] = Zero
          /\ SumW(SubSeq(hist, 1, j - 1)) = Zero

C15_Undefined ==
    C15_Case =>
        /\ IsNaN(buffer[1])
        /\ \A i \in 2..Order(fn, p) : IsNaN(buffer[i])
        /\ last.op = "finalize" => IsNaN(results[MeanAt])

C15_Stays ==
    [][(Updating /\ IsNaN(buffer[1])) =>
           /\ IsNaN(buffer'[1])
           /\ \A i \in 2..Order(fn, p) :
                 IsNaN(buffer[i]) => IsNaN(buffer'[i])]_vars

\* C15: once an update function was called with w = 0 while buffer[0]
\* was 0, the mean slot is 0/0 = NaN and it, and the moment slots computed
\* from it, stay NaN through every later update, those with positive
\* weights that make buffer[0] positive included; every later finalize
\* reports a NaN mean.
C15_Absorbing == []C15_Undefined /\ C15_Stays

\* a zero-weight first sample, then positive weights, then finalize
C15_Witness ==
    /\ fn = "variance"
    /\ Len(hist) = 3
    /\ hist[1][2] = Zero
    /\ Less(Zero, hist[2][2])
    /\ Less(Zero, hist[3][2])
    /\ Less(Zero, buffer[0])
    /\ IsNaN(buffer[1])
    /\ IsNaN(buffer[2])
    /\ last.op = "finalize"
    /\ IsNaN(results[0])

====
